---- MODULE Spec2Model ----
(***************************************************************************)
(* Model of visual/__main__.py: the expression tree (Text, Row, Fraction,  *)
(* Parenthesis), its layout (render / width) and the cursor navigation of  *)
(* press_key, driven by the display / readkey / press_key main loop.       *)
(*                                                                         *)
(* A str is a sequence of one-character strings; a list is a sequence.     *)
(* A ScreenOffset is the pair <<row, col>>; Python's None is <<>>.         *)
(* Nodes of a tree are numbered; node 0 stands for "no node" (root=None).  *)
(***************************************************************************)
EXTENDS Integers, Sequences, FiniteSets, TLC

VARIABLES
  shape,    \* which expression tree the session was built with (fixed)
  text,     \* text[n]: Text.text of node n (<<>> for the other kinds)
  cursor,   \* cursor[n]: Text.cursor of node n, None when absent
  pc,       \* position in the main loop
  out,      \* RenderOutput of the last display()
  ret,      \* what expression.press_key(key) returned in this loop iteration
  diag,     \* what this loop iteration wrote with eprint
  hist,     \* the RIGHT, LEFT pair in progress: [key, text, cursor] before each
  edits     \* number of insertions and removals so far (bounded)

vars == <<shape, text, cursor, pc, out, ret, diag, hist, edits>>

\* bound on the number of text edits of one session
MaxEdits == 2

FRAC_PADDING == 1

None == <<>>

ScreenOffset(row, col) == <<row, col>>

\* ---------------------------------------------------------------- colours
NUM_COLOR == "red"
TXT_COLOR == "yellow|italic"
OP_COLOR == "green"
FRAC_COLOR == "reset"
PAREN_COLOR == "reset"

\* ------------------------------------------------------------------ keys
\* readchar.key names; each is an escape sequence or a control character
UP == "UP"
DOWN == "DOWN"
LEFT == "LEFT"
RIGHT == "RIGHT"
BACKSPACE == "BACKSPACE"
HOME == "HOME"

ControlKeys == {UP, DOWN, LEFT, RIGHT, BACKSPACE, HOME}

PrintableKeys == {"x"}

Keys == ControlKeys \cup PrintableKeys

\* faulty variant: every key without a branch of its own counts as printable
isprintable_unhandled(key) == key \notin {UP, DOWN, LEFT, RIGHT, BACKSPACE}

\* str.isprintable(): escape sequences and control characters are not
isprintable(key) == key \notin ControlKeys

isalpha(ch) == ch \in {"a", "b", "v", "x", "y"}

isdigit(ch) == ch \in {"0", "1", "2", "3", "4", "5", "6", "7", "8", "9"}

isoperator(ch) == ch \in {"+", "-", "*", "/", "=", "|", "&", "^", "@"}

\* ----------------------------------------------------------------- trees
T(s, c) == [kind |-> "Text", kids |-> <<>>, text |-> s, cursor |-> c]

R(ks) == [kind |-> "Row", kids |-> ks, text |-> <<>>, cursor |-> None]

F(n, d) == [kind |-> "Fraction", kids |-> <<n, d>>, text |-> <<>>, cursor |-> None]

P(e) == [kind |-> "Parenthesis", kids |-> <<e>>, text |-> <<>>, cursor |-> None]

\* The trees a session is built with; node 1 is the root.  The third and the last tree are the
\* Row(Text(""), Fraction(..), Text("")) nests of the program's expression,
\* with shorter texts.
Shapes ==
  << \* expression = object_with_cursor
     << T(<<"5", "5", "5">>, ScreenOffset(0, 1)) >>,
     \* Row(Text("a"), Text("b")), cursor at the end of "a"
     << R(<<2, 3>>), T(<<"a">>, ScreenOffset(0, 1)), T(<<"b">>, None) >>,
     \* Row(Row(Text(""), Fraction(Text("11"), cursor), Text("")), Text("+v"))
     << R(<<2, 8>>), R(<<3, 4, 7>>), T(<<>>, None), F(5, 6),
        T(<<"1", "1">>, None), T(<<"5", "5", "5">>, ScreenOffset(0, 1)),
        T(<<>>, None), T(<<"+", "v">>, None) >>,
     \* Row(Parenthesis(Text("x")), Text("y")), cursor inside the parenthesis
     << R(<<2, 4>>), P(3), T(<<"x">>, ScreenOffset(0, 0)), T(<<"y">>, None) >>,
     \* Parenthesis(Fraction(Text("1"), Text("22")))
     << P(2), F(3, 4), T(<<"1">>, ScreenOffset(0, 1)), T(<<"2", "2">>, None) >>,
     \* Row(Text(""), Fraction(Row(Text(""), Fraction(Text("4"), cursor),
     \*     Text("")), Text(" 6")), Text(""))
     << R(<<2, 3, 11>>), T(<<>>, None), F(4, 10), R(<<5, 6, 9>>), T(<<>>, None),
        F(7, 8), T(<<"4">>, None), T(<<"5">>, ScreenOffset(0, 1)), T(<<>>, None),
        T(<<" ", "6">>, None), T(<<>>, None) >>
  >>

Tree == Shapes[shape]

Nodes == 1..Len(Tree)

Root == 1

kind(n) == Tree[n].kind

children(n) == Tree[n].kids

isText(n) == kind(n) = "Text"

RECURSIVE Concat(_)
Concat(ss) == IF ss = <<>> THEN <<>> ELSE Head(ss) \o Concat(Tail(ss))

RECURSIVE bfs_children(_)
bfs_children(n) ==
  <<n>> \o Concat([i \in 1..Len(children(n)) |-> bfs_children(children(n)[i])])

RECURSIVE obj_index_from(_, _, _)
obj_index_from(seq, obj, i) ==
  IF i > Len(seq) THEN 0
  ELSE IF seq[i] = obj THEN i ELSE obj_index_from(seq, obj, i + 1)

\* position of obj in seq, 1-based (0: not found, the ValueError)
obj_index(seq, obj) == obj_index_from(seq, obj, 1)

Max(S) == CHOOSE x \in S : \A y \in S : y <= x

Min(S) == CHOOSE x \in S : \A y \in S : x <= y

\* a list comprehension, built once
List(f) == f \o <<>>

\* Op(e), with e computed once: a local variable and its uses
Apply(Op(_), e) == CHOOSE v \in {Op(x) : x \in {e}} : TRUE

Fill(ch, n) == List([i \in 1..n |-> ch])

\* ------------------------------------------------------------- alignment
\* f"{s:^{width}}": the odd cell of padding goes to the right
str_align(s, width) ==
  IF Len(s) >= width THEN s
  ELSE LET pad == width - Len(s)
           lpad == pad \div 2
       IN Fill(" ", lpad) \o s \o Fill(" ", pad - lpad)

RECURSIVE list_align_loop(_, _, _)
list_align_loop(outl, left, width) ==
  IF Len(outl) < width
  THEN IF ~left
       THEN list_align_loop(Append(outl, ""), TRUE, width)
       ELSE list_align_loop(<<"">> \o outl, FALSE, width)
  ELSE outl

list_align(ls, width) ==
  IF width = 0 THEN <<>> ELSE list_align_loop(ls, FALSE, width)

\* the assert at the end of list_align
list_align_ok(ls, width) == width = 0 \/ Len(ls) <= width

\* index of the first "x" of the centred string (expr_width > 0)
align_space(expr_width, width) ==
  IF expr_width = 0 THEN width \div 2
  ELSE obj_index(str_align(Fill("x", expr_width), width), "x") - 1

\* ---------------------------------------------------------------- render
RenderOutput(lines, colors, baseline, cur) ==
  [ok |-> TRUE, err |-> "", lines |-> lines, colors |-> colors,
   baseline |-> baseline, cursor |-> cur]

\* a render() that raises instead of returning
Raise(err) ==
  [ok |-> FALSE, err |-> err, lines |-> <<>>, colors |-> <<>>,
   baseline |-> 0, cursor |-> None]

RECURSIVE SumTo(_, _)
SumTo(f, n) == IF n = 0 THEN 0 ELSE f[n] + SumTo(f, n - 1)

colorize(s) ==
  List([i \in 1..Len(s) |->
     IF isalpha(s[i]) THEN TXT_COLOR
     ELSE IF isdigit(s[i]) THEN NUM_COLOR
     ELSE IF isoperator(s[i]) THEN OP_COLOR
     ELSE ""])

TextRender(n, Tx, C) == RenderOutput(<<Tx[n]>>, <<colorize(Tx[n])>>, 0, C[n])

\* Expression.width() of a render result; -1 when render or the assert raised
WidthOf(r) ==
  IF ~r.ok \/ r.lines = <<>> THEN -1
  ELSE IF Cardinality({Len(r.lines[i]) : i \in 1..Len(r.lines)}) # 1 THEN -1
  ELSE Len(r.lines[1])

\* the exception of a child's render() or width()
ErrOf(r) == IF r.ok THEN "AssertionError" ELSE r.err

RECURSIVE render(_, _, _)

width(n, Tx, C) == WidthOf(render(n, Tx, C))

\* Row.render, third part: the cursor and the output rows, from the padded
\* lists a.lines and a.colors of the children
RowJoin(a) ==
  LET k == Len(a.rs)
      withcur == {i \in 1..k : a.rs[i].cursor # None}
      cur == IF withcur = {} THEN None
             ELSE LET i == Max(withcur)   \* the last assignment stays
                  IN ScreenOffset(
                       a.rs[i].cursor[1] + a.baseline - a.rs[i].baseline,
                       a.rs[i].cursor[2] + SumTo(a.widths, i - 1))
      \* zip(zip_longest(*lines), zip_longest(*colors))
      rows == Min({Max({Len(a.lines[i]) : i \in 1..k}),
                   Max({Len(a.colors[i]) : i \in 1..k})})
      lcell(i, r) == IF r <= Len(a.lines[i]) THEN a.lines[i][r] ELSE <<>>
      ccell(i, r) == IF r <= Len(a.colors[i]) THEN a.colors[i][r] ELSE <<>>
  IN IF \E i \in 1..k, r \in 1..rows : ~list_align_ok(ccell(i, r), a.widths[i])
     THEN Raise("AssertionError")
     ELSE RenderOutput(
            List([r \in 1..rows |->
               Concat([i \in 1..k |-> str_align(lcell(i, r), a.widths[i])])]),
            List([r \in 1..rows |->
               Concat([i \in 1..k |-> list_align(ccell(i, r), a.widths[i])])]),
            a.baseline, cur)

\* Row.render, second part: the baseline top padding, inserted in the lists
\* each child returned
RowPad(a) ==
  LET k == Len(a.rs)
      pad(i) == a.baseline - a.rs[i].baseline
  IN Apply(RowJoin,
           [rs |-> a.rs, widths |-> a.widths, baseline |-> a.baseline,
            lines |-> List([i \in 1..k |->
                         [j \in 1..pad(i) |-> Fill(" ", a.widths[i])]
                         \o a.rs[i].lines]),
            colors |-> List([i \in 1..k |->
                          [j \in 1..pad(i) |-> list_align(<<"">>, a.widths[i])]
                          \o a.rs[i].colors])])

\* Row.render, first part: widths and baseline, from the children's results
RowLayout(rs) ==
  LET k == Len(rs)
      bad == {i \in 1..k : WidthOf(rs[i]) < 0}
  IN IF bad # {} THEN Raise(ErrOf(rs[Min(bad)]))
     ELSE Apply(RowPad,
                [rs |-> rs,
                 widths |-> List([i \in 1..k |-> WidthOf(rs[i])]),
                 baseline |-> Max({rs[i].baseline : i \in 1..k})])

RowRender(n, Tx, C) ==
  IF Len(children(n)) = 0 THEN Raise("ValueError")   \* zip(*[]) unpacked
  ELSE Apply(RowLayout,
             List([i \in 1..Len(children(n)) |-> render(children(n)[i], Tx, C)]))

\* Fraction.render, from the results a.nr, a.dr and widths a.nw, a.dw of
\* numerator and denominator
FractionLayout(a) ==
  LET nr == a.nr
      dr == a.dr
      w == 2 * FRAC_PADDING + Max({a.nw, a.dw})
      baseline == Len(nr.lines)
      c1 == IF nr.cursor # None
            THEN ScreenOffset(nr.cursor[1], nr.cursor[2] + align_space(a.nw, w))
            ELSE None
      cur == IF dr.cursor # None
             THEN ScreenOffset(dr.cursor[1] + baseline + 1,
                               dr.cursor[2] + align_space(a.dw, w))
             ELSE c1
  IN IF nr.cursor # None /\ dr.cursor # None
     THEN Raise("AssertionError")   \* at least one of cursors must be None
     ELSE IF \/ \E i \in 1..Len(nr.colors) : ~list_align_ok(nr.colors[i], w)
             \/ \E i \in 1..Len(dr.colors) : ~list_align_ok(dr.colors[i], w)
     THEN Raise("AssertionError")
     ELSE RenderOutput(
            [i \in 1..Len(nr.lines) |-> str_align(nr.lines[i], w)]
              \o <<Fill("-", w)>>
              \o [i \in 1..Len(dr.lines) |-> str_align(dr.lines[i], w)],
            [i \in 1..Len(nr.colors) |-> list_align(nr.colors[i], w)]
              \o <<Fill(FRAC_COLOR, w)>>
              \o [i \in 1..Len(dr.colors) |-> list_align(dr.colors[i], w)],
            baseline, cur)

FractionWidths(a) ==
  IF WidthOf(a.nr) < 0 \/ WidthOf(a.dr) < 0
  THEN Raise(ErrOf(IF WidthOf(a.nr) < 0 THEN a.nr ELSE a.dr))
  ELSE Apply(FractionLayout,
             [nr |-> a.nr, dr |-> a.dr, nw |-> WidthOf(a.nr), dw |-> WidthOf(a.dr)])

FractionRender(n, Tx, C) ==
  Apply(FractionWidths,
        [nr |-> render(children(n)[1], Tx, C), dr |-> render(children(n)[2], Tx, C)])

\* Parenthesis.render, from the result r of the wrapped expression
ParenthesisLayout(r) ==
  LET w == WidthOf(r)
      rows == Min({Len(r.lines), Len(r.colors)})
      lparen(i) == IF Len(r.lines) = 1 THEN "("
                   ELSE IF i = 1 THEN "top(" ELSE IF i < Len(r.lines) THEN "mid(" ELSE "bot("
      rparen(i) == IF Len(r.lines) = 1 THEN ")"
                   ELSE IF i = 1 THEN "top)" ELSE IF i < Len(r.lines) THEN "mid)" ELSE "bot)"
  IN IF w < 0 THEN Raise(ErrOf(r))
     ELSE IF Len(r.lines) # 1
             /\ \E i \in 1..rows : ~list_align_ok(r.colors[i], w)
     THEN Raise("AssertionError")
     \* ScreenOffset(cursor.row, cursor.col + 1) with cursor = None
     ELSE IF r.cursor = None THEN Raise("AttributeError")
     ELSE IF Len(r.lines) = 1
     THEN RenderOutput(<< <<lparen(1)>> \o r.lines[1] \o <<rparen(1)>> >>,
                       << <<PAREN_COLOR>> \o r.colors[1] \o <<PAREN_COLOR>> >>,
                       0, ScreenOffset(r.cursor[1], r.cursor[2] + 1))
     ELSE RenderOutput(
            List([i \in 1..rows |->
               <<lparen(i)>> \o str_align(r.lines[i], w) \o <<rparen(i)>>]),
            List([i \in 1..rows |->
               <<PAREN_COLOR>> \o list_align(r.colors[i], w) \o <<PAREN_COLOR>>]),
            r.baseline, ScreenOffset(r.cursor[1], r.cursor[2] + 1))

ParenthesisRender(n, Tx, C) == Apply(ParenthesisLayout, render(children(n)[1], Tx, C))

render(n, Tx, C) ==
  CASE kind(n) = "Text" -> TextRender(n, Tx, C)
    [] kind(n) = "Row" -> RowRender(n, Tx, C)
    [] kind(n) = "Fraction" -> FractionRender(n, Tx, C)
    [] kind(n) = "Parenthesis" -> ParenthesisRender(n, Tx, C)

\* ------------------------------------------------------------- press_key
\* The mutable part of the tree while one key event is handled, with what
\* the event printed with eprint.
Say(st, msg) == [st EXCEPT !.diag = Append(@, msg)]

col(n, st) == st.cursor[n][2]

\* faulty variant: the old leaf keeps its cursor
TransferKeepOld(self, expr, column, st) ==
  [st EXCEPT !.cursor = [@ EXCEPT ![expr] = ScreenOffset(0, column)]]

\* self.cursor = None; expr.cursor = ScreenOffset(0, column)
Transfer(self, expr, column, st) ==
  [st EXCEPT !.cursor = [@ EXCEPT ![self] = None, ![expr] = ScreenOffset(0, column)]]

KeyInsert(n, key, st) ==
  LET c == col(n, st)
      s == st.text[n]
  IN [Say(st, "INSERT") EXCEPT
        !.text = [@ EXCEPT ![n] = SubSeq(s, 1, c) \o <<key>> \o SubSeq(s, c + 1, Len(s))],
        !.cursor = [@ EXCEPT ![n] = ScreenOffset(@[1], c + 1)]]

KeyBackspace(n, st) ==
  LET c == col(n, st)
      s == st.text[n]
  IN IF c = 0 THEN Say(st, "SPECIAL ACTION")
     ELSE [Say(st, "REMOVE") EXCEPT
             !.text = [@ EXCEPT ![n] = SubSeq(s, 1, c - 1) \o SubSeq(s, c + 1, Len(s))],
             !.cursor = [@ EXCEPT ![n] = ScreenOffset(@[1], c - 1)]]

\* faulty variant: the previous leaf is entered at its start
KeyUpToStart(n, root, st) ==
  LET bfs_line == bfs_children(root)
      before == SubSeq(bfs_line, 1, obj_index(bfs_line, n) - 1)
      targets == {i \in 1..Len(before) : isText(before[i])}
      s0 == Say(st, "GOING UP")
  IN IF targets = {} THEN Say(s0, "WARNING: ran out of targets")
     ELSE Transfer(n, before[Max(targets)], 0, Say(s0, "selected"))

KeyUp(n, root, st) ==
  LET bfs_line == bfs_children(root)
      before == SubSeq(bfs_line, 1, obj_index(bfs_line, n) - 1)
      targets == {i \in 1..Len(before) : isText(before[i])}
      s0 == Say(st, "GOING UP")
  IN IF targets = {} THEN Say(s0, "WARNING: ran out of targets")
     ELSE LET expr == before[Max(targets)]   \* first Text of the reversed scan
          IN Transfer(n, expr, width(expr, s0.text, s0.cursor), Say(s0, "selected"))

\* faulty variant: past the last leaf the scan wraps to the first Text node
KeyDownWrap(n, root, st) ==
  LET bfs_line == bfs_children(root)
      first == obj_index(bfs_line, n) + 1
      targets == {i \in first..Len(bfs_line) : isText(bfs_line[i])}
      texts == {i \in 1..Len(bfs_line) : isText(bfs_line[i])}
      s0 == Say(st, "GOING DOWN")
  IN Transfer(n, bfs_line[Min(IF targets = {} THEN texts ELSE targets)], 0,
              Say(s0, "selected"))

KeyDown(n, root, st) ==
  LET bfs_line == bfs_children(root)
      first == obj_index(bfs_line, n) + 1
      targets == {i \in first..Len(bfs_line) : isText(bfs_line[i])}
      s0 == Say(st, "GOING DOWN")
  IN IF targets = {} THEN Say(s0, "WARNING: ran out of targets")
     ELSE LET expr == bfs_line[Min(targets)]
          IN Transfer(n, expr, 0, Say(s0, "selected"))

RECURSIVE TextPressKey(_, _, _, _)

KeyLeft(n, root, st) ==
  IF col(n, st) > 0
  THEN [st EXCEPT !.cursor = [@ EXCEPT ![n] = ScreenOffset(@[1], @[2] - 1)]]
  ELSE TextPressKey(n, UP, root, st).st

\* faulty variant: the bound of the column is tested with <=
KeyRightPastEnd(n, root, st) ==
  IF col(n, st) <= width(n, st.text, st.cursor)
  THEN [st EXCEPT !.cursor = [@ EXCEPT ![n] = ScreenOffset(@[1], @[2] + 1)]]
  ELSE TextPressKey(n, DOWN, root, st).st

KeyRight(n, root, st) ==
  IF col(n, st) < width(n, st.text, st.cursor)
  THEN [st EXCEPT !.cursor = [@ EXCEPT ![n] = ScreenOffset(@[1], @[2] + 1)]]
  ELSE TextPressKey(n, DOWN, root, st).st

\* Text.press_key; root = 0 is root=None (self is the root)
TextPressKey(n, key, root, st) ==
  IF st.cursor[n] = None THEN [st |-> st, accepted |-> FALSE]
  ELSE IF root = 0 /\ key \in {UP, DOWN}
  THEN [st |-> Say(st, "cancelling vertical movement"), accepted |-> TRUE]
  ELSE LET s1 == IF isprintable(key) THEN KeyInsert(n, key, st) ELSE st
           s2 == IF key = BACKSPACE THEN KeyBackspace(n, s1) ELSE s1
           s3 == IF key = LEFT THEN KeyLeft(n, root, s2) ELSE s2
           s4 == IF key = RIGHT THEN KeyRight(n, root, s3) ELSE s3
           s5 == IF key = UP THEN KeyUp(n, root, s4) ELSE s4
           s6 == IF key = DOWN THEN KeyDown(n, root, s5) ELSE s5
       IN [st |-> s6, accepted |-> TRUE]

RECURSIVE press_key(_, _, _, _)

\* the loop of Expression.press_key over children(n)[i..]: stop at the first
\* child that accepts the key
RECURSIVE Dispatch(_, _, _, _, _)
Dispatch(n, i, key, root, st) ==
  IF i > Len(children(n)) THEN [st |-> st, accepted |-> FALSE]
  ELSE CHOOSE v \in
         {IF r.accepted THEN [st |-> r.st, accepted |-> TRUE]
          ELSE Dispatch(n, i + 1, key, root, r.st) :
            r \in {press_key(children(n)[i], key, root, st)}} : TRUE

\* faulty variant: the loop goes on after a child accepted the key
RECURSIVE DispatchAll(_, _, _, _, _)
DispatchAll(n, i, key, root, st) ==
  IF i > Len(children(n)) THEN [st |-> st, accepted |-> FALSE]
  ELSE CHOOSE v \in
         {CHOOSE u \in
            {[st |-> rest.st, accepted |-> r.accepted \/ rest.accepted] :
               rest \in {DispatchAll(n, i + 1, key, root, r.st)}} : TRUE :
            r \in {press_key(children(n)[i], key, root, st)}} : TRUE

ExprPressKeyAll(n, key, root, st) ==
  DispatchAll(n, 1, key, IF root = 0 THEN n ELSE root, st)

\* Expression.press_key: root = root or self
ExprPressKey(n, key, root, st) ==
  Dispatch(n, 1, key, IF root = 0 THEN n ELSE root, st)

press_key(n, key, root, st) ==
  IF isText(n) THEN TextPressKey(n, key, root, st)
  ELSE ExprPressKey(n, key, root, st)

\* ------------------------------------------------------------- main loop
NotRendered == Raise("not rendered")

\* the value of a call that returned b; None while nothing was returned
Returned(b) == <<b>>

InitialText == [n \in Nodes |-> Tree[n].text]

InitialCursor == [n \in Nodes |-> Tree[n].cursor]

Init ==
  /\ shape \in 1..Len(Shapes)
  /\ text = InitialText
  /\ cursor = InitialCursor
  /\ pc = "display"
  /\ out = NotRendered
  /\ ret = None
  /\ diag = <<>>
  /\ hist = <<>>
  /\ edits = 0

\* the asserts of display() and cursor_string() on a render result
DisplayAsserts(r, withCursor) ==
  /\ \A i \in 1..Min({Len(r.lines), Len(r.colors)}) :
        Len(r.lines[i]) = Len(r.colors[i])
  /\ withCursor /\ r.cursor # None => r.cursor[1] >= 0 /\ r.cursor[2] >= 0

\* faulty variant: the cursor a Text node hands out in its RenderOutput is its own
\* object, and the composing nodes translate it in place
DisplayStepInPlace(withCursor, next) ==
  \E r \in {render(Root, text, cursor)} :
     /\ out' = r
     /\ pc' = IF r.ok /\ DisplayAsserts(r, withCursor) THEN next ELSE "crashed"
     /\ diag' = IF r.ok /\ r.cursor = None
                THEN <<"WARNING: cursor is not present">> ELSE <<>>
     /\ ret' = None
     /\ cursor' = [n \in Nodes |->
                     IF cursor[n] # None /\ r.ok /\ r.cursor # None
                     THEN r.cursor ELSE cursor[n]]
     /\ UNCHANGED <<shape, text, hist, edits>>

\* expression.display(): r = self.render(), then print; an exception ends
\* the program.  A loop iteration starts here: diag and ret are its own.
DisplayStep(withCursor, next) ==
  \E r \in {render(Root, text, cursor)} :
     /\ out' = r
     /\ pc' = IF r.ok /\ DisplayAsserts(r, withCursor) THEN next ELSE "crashed"
     /\ diag' = IF r.ok /\ r.cursor = None
                THEN <<"WARNING: cursor is not present">> ELSE <<>>
     /\ ret' = None
     /\ UNCHANGED <<shape, text, cursor, hist, edits>>

Display ==
  /\ pc = "display"
  /\ DisplayStep(TRUE, "readkey")

\* the RIGHT, LEFT pair of key events in progress: the text and cursor
\* before a RIGHT, then before the LEFT that follows it
Record(h, key, Tx, C) ==
  LET e == [key |-> key, text |-> Tx, cursor |-> C]
  IN IF key = RIGHT THEN <<e>>
     ELSE IF key = LEFT /\ Len(h) = 1 THEN Append(h, e)
     ELSE <<>>

\* key = readchar.readkey(); eprint(key pressed); expression.press_key(key)
PressKey(key) ==
  /\ pc = "readkey"
  /\ (isprintable(key) \/ key = BACKSPACE) => edits < MaxEdits
  /\ \E r \in {press_key(Root, key, 0,
                          [text |-> text, cursor |-> cursor,
                           diag |-> Append(diag, key)])} :
        /\ text' = r.st.text
        /\ cursor' = r.st.cursor
        /\ diag' = r.st.diag
        /\ ret' = Returned(r.accepted)
        /\ edits' = IF r.st.text # text THEN edits + 1 ELSE edits
  /\ hist' = Record(hist, key, text, cursor)
  /\ pc' = "display"
  /\ out' = NotRendered   \* r is local to display()
  /\ UNCHANGED shape

\* key == readchar.key.CTRL_C: break
CtrlC ==
  /\ pc = "readkey"
  /\ pc' = "final"
  /\ UNCHANGED <<shape, text, cursor, out, ret, diag, hist, edits>>

\* expression.display(cursor=False) after the loop
FinalDisplay ==
  /\ pc = "final"
  /\ DisplayStep(FALSE, "done")

Next ==
  \/ Display
  \/ \E key \in Keys : PressKey(key)
  \/ CtrlC
  \/ FinalDisplay

Spec == Init /\ [][Next]_vars

\* ------------------------------------------------ render as a function
\* render() applied to a tree whose Text nodes hold any set of cursors
\* every assignment of cursors to the nodes 1..k: a Text node holds none or
\* one at a column of its text, the other kinds hold none
RECURSIVE CursorChoices(_)
CursorChoices(k) ==
  IF k = 0 THEN {<<>>}
  ELSE {Append(c, x) :
          c \in CursorChoices(k - 1),
          x \in IF isText(k)
                THEN {None} \cup {ScreenOffset(0, j) : j \in 0..Len(Tree[k].text)}
                ELSE {None}}

InitRender ==
  /\ shape \in 1..Len(Shapes)
  /\ text = InitialText
  /\ cursor \in CursorChoices(Len(Tree))
  /\ pc = "call"
  /\ out = NotRendered
  /\ ret = None
  /\ diag = <<>>
  /\ hist = <<>>
  /\ edits = 0

RenderCall ==
  /\ pc = "call"
  /\ out' = render(Root, text, cursor)
  /\ pc' = "returned"
  /\ UNCHANGED <<shape, text, cursor, ret, diag, hist, edits>>

NextRender == RenderCall

SpecRender == InitRender /\ [][NextRender]_vars

\* ================================================================ claims
Owners(C) == {n \in Nodes : C[n] # None}

Focus(C) == CHOOSE n \in Owners(C) : TRUE

Preorder == bfs_children(Root)

Pos(n) == obj_index(Preorder, n)

TextsAfter(n) == {m \in Nodes : isText(m) /\ Pos(m) > Pos(n)}

TextsBefore(n) == {m \in Nodes : isText(m) /\ Pos(m) < Pos(n)}

\* the first Text node after n in the pre-order flattening
NextText(n) == CHOOSE m \in TextsAfter(n) : \A o \in TextsAfter(n) : Pos(m) <= Pos(o)

\* the key of this loop iteration ("" before it is read)
KeyOf(d) ==
  IF d # <<>> /\ d[1] \in Keys THEN d[1]
  ELSE IF Len(d) >= 2 /\ d[2] \in Keys THEN d[2] ELSE ""

\* this step is expression.press_key(k)
KeyStep(k) == pc = "readkey" /\ pc' = "display" /\ KeyOf(diag') = k

Said(msg) == \E i \in 1..Len(diag) : diag[i] = msg

AtEnd(Tx, C) == C[Focus(C)][2] = Len(Tx[Focus(C)])

\* C1: after any sequence of key events exactly one node owns a cursor, and
\* it is a Text node; a focus transfer clears the old leaf's cursor and sets
\* the new leaf's in the same event.
C1_OneCursor ==
  /\ Cardinality(Owners(cursor)) = 1
  /\ \A n \in Owners(cursor) : isText(n)

\* a focus transfer has just happened
C1_Witness ==
  /\ pc = "display"
  /\ Said("selected")
  /\ Cardinality(Owners(cursor)) = 1

\* C2: every display of a tree with one focused leaf renders without an
\* exception and yields a cursor with row < rows and 0 <= col <= width,
\* wherever the focused leaf is (inside or outside a Parenthesis).
C2_RenderTotal ==
  out # NotRendered =>
    /\ out.ok
    /\ out.cursor # None
    /\ 0 <= out.cursor[1] /\ out.cursor[1] < Len(out.lines)
    /\ 0 <= out.cursor[2] /\ out.cursor[2] <= WidthOf(out)

\* C3 as stated: a key outside the taxonomy is not consumed (press_key
\* returns False) and changes neither text nor cursor.
C3_UnrecognizedNotConsumed ==
  [][KeyStep(HOME) =>
       ret' = Returned(FALSE) /\ text' = text /\ cursor' = cursor]_vars

\* C3 amended: a key outside the taxonomy changes neither text nor cursor,
\* and the focused leaf accepts it: press_key at the root returns True.
C3_UnrecognizedAccepted ==
  [][KeyStep(HOME) =>
       ret' = Returned(TRUE) /\ text' = text /\ cursor' = cursor]_vars

C3_Witness ==
  /\ pc = "display"
  /\ KeyOf(diag) = HOME
  /\ ret = Returned(TRUE)

\* C4: with the cursor at the end of a leaf L that has a Text node after it
\* in pre-order, move-right then move-left leaves the cursor on L at the
\* same column and every text unchanged.
C4_RoundTrip ==
  (/\ pc = "display"
   /\ Len(hist) = 2
   /\ hist[1].key = RIGHT /\ hist[2].key = LEFT
   /\ AtEnd(hist[1].text, hist[1].cursor)
   /\ TextsAfter(Focus(hist[1].cursor)) # {})
  => text = hist[1].text /\ cursor = hist[1].cursor

\* the round trip went through another leaf, from a non-empty text
C4_Witness ==
  /\ pc = "display"
  /\ Len(hist) = 2
  /\ hist[1].key = RIGHT /\ hist[2].key = LEFT
  /\ AtEnd(hist[1].text, hist[1].cursor)
  /\ TextsAfter(Focus(hist[1].cursor)) # {}
  /\ Focus(hist[2].cursor) # Focus(hist[1].cursor)
  /\ hist[1].cursor[Focus(hist[1].cursor)][2] > 0
  /\ cursor = hist[1].cursor

\* the focused leaf has no Text node on the side the key moves to
DeadEnd(k) ==
  LET L == Focus(cursor)
  IN \/ /\ k = UP \/ (k = LEFT /\ cursor[L][2] = 0)
        /\ TextsBefore(L) = {}
     \/ /\ k = DOWN \/ (k = RIGHT /\ AtEnd(text, cursor))
        /\ TextsAfter(L) = {}

\* C5: a move with no leaf further in its direction is consumed, leaves the
\* cursor and every text as they were, and emits a diagnostic.
C5_DeadEnd ==
  [][\A k \in {UP, DOWN, LEFT, RIGHT} :
       KeyStep(k) /\ DeadEnd(k) =>
         /\ ret' = Returned(TRUE)
         /\ cursor' = cursor
         /\ text' = text
         /\ \E i \in 1..Len(diag') :
              diag'[i] \in {"WARNING: ran out of targets",
                            "cancelling vertical movement"}]_vars

C5_Witness ==
  /\ pc = "display"
  /\ KeyOf(diag) = RIGHT
  /\ Said("WARNING: ran out of targets")
  /\ TextsAfter(Focus(cursor)) = {}
  /\ ret = Returned(TRUE)

\* C6: render() of a tree in which more than one Text node owns a cursor
\* raises, whichever node composes the cursors.
C6_MultiCursorFails ==
  pc = "returned" /\ Cardinality(Owners(cursor)) > 1 => ~out.ok

ColumnInBounds ==
  \A n \in Owners(cursor) :
    cursor[n][1] = 0 /\ 0 <= cursor[n][2] /\ cursor[n][2] <= Len(text[n])

\* C8: a cursor is always on row 0 at a column within 0..length of its
\* text; an insertion raises column and length by 1, erase-backward lowers
\* both by 1 when the column is above 0 and changes nothing at column 0, and
\* a focus transfer enters the new leaf at its end (moving up) or at column
\* 0 (moving down).
C8_ColumnInBounds ==
  /\ ColumnInBounds
  /\ [][LET L == Focus(cursor)
            N == Focus(cursor')
        IN /\ ColumnInBounds'
           /\ \A k \in PrintableKeys :
                KeyStep(k) => /\ N = L
                              /\ Len(text'[L]) = Len(text[L]) + 1
                              /\ cursor'[L][2] = cursor[L][2] + 1
           /\ KeyStep(BACKSPACE) =>
                /\ N = L
                /\ IF cursor[L][2] > 0
                   THEN /\ Len(text'[L]) = Len(text[L]) - 1
                        /\ cursor'[L][2] = cursor[L][2] - 1
                   ELSE text' = text /\ cursor' = cursor
           /\ N # L =>
                /\ text' = text
                /\ cursor'[N][2] = IF KeyOf(diag') \in {UP, LEFT}
                                   THEN Len(text[N]) ELSE 0]_vars

\* an insertion has just moved the cursor to the end of the grown text
C8_Witness ==
  /\ pc = "display"
  /\ Said("INSERT")
  /\ edits = 1
  /\ AtEnd(text, cursor)

\* width() as the layout rules give it
ExpectedWidth(n, w) ==
  CASE kind(n) = "Text" -> Len(text[n])
    [] kind(n) = "Row" -> SumTo([i \in 1..Len(children(n)) |-> w[children(n)[i]]],
                                Len(children(n)))
    [] kind(n) = "Fraction" ->
         2 * FRAC_PADDING + Max({w[children(n)[1]], w[children(n)[2]]})
    [] kind(n) = "Parenthesis" -> w[children(n)[1]] + 2

RenderShape(n, r, w) ==
  /\ \A i \in 1..Len(r.lines) : Len(r.lines[i]) = w[n]
  /\ w[n] = ExpectedWidth(n, w)
  /\ Len(r.colors) = Len(r.lines)
  /\ \A i \in 1..Len(r.lines) : Len(r.colors[i]) = Len(r.lines[i])

\* C9: every node renders to rows of one length, which is width() and the
\* length the layout rule of its kind gives, with one colour per cell.
C9_RenderShape ==
  \A rs \in {List([n \in Nodes |-> render(n, text, cursor)])} :
    \A w \in {List([n \in Nodes |-> WidthOf(rs[n])])} :
      \A n \in Nodes : rs[n].ok /\ RenderShape(n, rs[n], w)

\* the same, for the nodes whose render() returns
RenderShapeWhenOk ==
  \A rs \in {List([n \in Nodes |-> render(n, text, cursor)])} :
    \A w \in {List([n \in Nodes |-> WidthOf(rs[n])])} :
      \A n \in Nodes : rs[n].ok => RenderShape(n, rs[n], w)

\* C10: move-down, or move-right at the end of the text, moves the focus to
\* the first Text node after the old leaf in pre-order, at column 0, and no
\* further: the newly focused leaf does not handle the same event again.
C10_DownOneLeaf ==
  [][\A k \in {DOWN, RIGHT} :
       (/\ KeyStep(k)
        /\ k = RIGHT => AtEnd(text, cursor)
        /\ TextsAfter(Focus(cursor)) # {})
       => /\ Owners(cursor') = {NextText(Focus(cursor))}
          /\ cursor'[NextText(Focus(cursor))] = ScreenOffset(0, 0)
          /\ text' = text
          /\ ret' = Returned(TRUE)]_vars

\* the focus moved down and a later Text node was left untouched
C10_Witness ==
  /\ pc = "display"
  /\ KeyOf(diag) = DOWN
  /\ Said("selected")
  /\ TextsAfter(Focus(cursor)) # {}
  /\ TextsBefore(Focus(cursor)) # {}

====
